---- MODULE Spec2Model ----
(***************************************************************************)
(* CAYT extension, background service worker (cayt-extension/background.js) *)
(* The background context is single-threaded: every handler runs from one  *)
(* suspension point (await) to the next without interruption.  Each action *)
(* below is one such run.  A message being handled is a "flow" whose pc is *)
(* the await it is suspended at.                                           *)
(***************************************************************************)
EXTENDS Integers, Sequences, FiniteSets, Bags, TLC

\* ------------------------------------------------------------------ bounds
MaxFlows == 2       \* calls suspended at an await at the same time
MaxCalls == 2       \* page callbacks and events waiting to run at the same time
MaxTime == 4        \* playback times are 0..MaxTime
MaxSegments == 3    \* longest segment list given to the synchronizer alone

\* ------------------------------------------------------------ value spaces
Null == "null"
Tabs == {"t1"}
Videos == {"A", "B"}
None == << >>                   \* JS null for a list-valued field
Some(x) == << x >>

HealthOutcomes == {"connected", "notConnected", "unreachable"}
CancelOutcomes == {"ok", "notOk", "failure"}

\* Success bodies of GET /api/v1/translate differ in their segment list: the
\* extension takes whatever list the backend sends.
Shapes == {"sorted", "unsorted", "empty"}
\* what the translate fetch ends in: a body with success, a body with
\* success = false, or a transport / HTTP failure
TranslateOutcomes ==
  {[kind |-> "success", shape |-> s] : s \in Shapes}
    \cup {[kind |-> k, shape |-> Null] : k \in {"notSuccess", "failure"}}

\* segment k of video v
Segment(v, k, s, e) ==
  [start |-> s, end |-> e, original |-> << v, k, "en" >>, translated |-> << v, k, "ko" >>]
\* segments of a success body for video v
BackendSegments(v, shape) ==
  CASE shape = "sorted" -> << Segment(v, 1, 1, 2), Segment(v, 2, 3, 4) >>
    [] shape = "unsorted" -> << Segment(v, 2, 3, 4), Segment(v, 1, 1, 2) >>
    [] OTHER -> << >>
BackendResult(v, shape) ==
  [success |-> TRUE, segments |-> BackendSegments(v, shape), task_id |-> v,
   video_id |-> v, source_type |-> "manual"]

VARIABLES
  tabStates,        \* Map tabId -> session object: None (no entry) or Some(state)
  pendingRequests,  \* keys of the pendingRequests Map
  flows,            \* the calls suspended at an await (a bag)
  tabOpen,          \* browser side: the tab still exists
  out,              \* the sendResponse call made by the last step, if any
  page,             \* content.js: `state`, the module's lets, the overlay element
  location,         \* video id of the page url (Null: not a watch page)
  calls,            \* page callbacks and events waiting to run (a bag)
  ack               \* the page listener's sendResponse call of the last step

bvars == << tabStates, pendingRequests, flows, tabOpen, out >>
pvars == << page, location, calls, ack >>
vars == << tabStates, pendingRequests, flows, tabOpen, out, page, location, calls, ack >>

\* ------------------------------------------------------------- data model
\* initTabState, 19-32: the fields of a new session object
NewState ==
  [isActive |-> FALSE, isLoading |-> FALSE, subtitles |-> None,
   currentVideoId |-> Null, currentTaskId |-> Null, sourceType |-> Null,
   error |-> Null]

requestKey(t, v) == << t, v >>

\* A handler keeps the object getTabState gave it (144, 230) in its local
\* `state`.  After initTabState (294) or tabStates.delete (274) that object is
\* no longer the one in the Map and nothing reads it again: `live` says whether
\* the handler's object is still the tab's session; a write through a reference
\* that is not live changes no session.
\* A suspended call is the record of its locals: vid is the video of the
\* message, cvid the video of the cancel call it awaits, pc the await.
TranslateFlow(t, v, cv, pc) ==
  [kind |-> "translate", tab |-> t, vid |-> v, live |-> TRUE, cvid |-> cv, pc |-> pc]
CancelFlow(t, mv, cv) ==
  [kind |-> "cancel", tab |-> t, vid |-> mv, live |-> TRUE, cvid |-> cv, pc |-> "cancel"]
\* requestCancelByVideoId called without await (264, 288)
DetachedCancel(t, cv) ==
  [kind |-> "detached", tab |-> t, vid |-> Null, live |-> FALSE, cvid |-> cv, pc |-> "cancel"]

Stale(r) == [r EXCEPT !.live = FALSE]
FlowRecs ==
  UNION {
    {TranslateFlow(t, v, Null, pc) : t \in Tabs, v \in Videos,
                                     pc \in {"health", "notify", "translate"}},
    {TranslateFlow(t, v, cv, "preCancel") : t \in Tabs, v \in Videos, cv \in Videos},
    {CancelFlow(t, mv, cv) : t \in Tabs, mv \in Videos \cup {Null}, cv \in Videos}}
AllFlowRecs ==
  FlowRecs \cup {Stale(r) : r \in FlowRecs}
           \cup {DetachedCancel(t, cv) : t \in Tabs, cv \in Videos}

\* a sendResponse argument; data is the payload of a success (195-207)
Response(ok, cancelled, kind) ==
  [success |-> ok, cancelled |-> cancelled, kind |-> kind, data |-> None]
\* 195-207
SuccessPayload(result) ==
  [Response(TRUE, FALSE, "data") EXCEPT
     !.data = Some([taskId |-> result.task_id, videoId |-> result.video_id,
                    segments |-> result.segments, sourceType |-> result.source_type])]
NoOut == [action |-> Null, vid |-> Null, resp |-> Response(FALSE, FALSE, Null)]

\* the suspended calls are a bag: calls with the same locals are alike
Suspended == BagToSet(flows)
HasRoom == BagCardinality(flows) < MaxFlows
Suspend(r) == flows (+) SetToBag({r})
Resume(r) == flows (-) SetToBag({r})
Move(r, q) == Resume(r) (+) SetToBag({q})

HasState(t) == tabStates[t] # None
initTabState(t) == [tabStates EXCEPT ![t] = Some(NewState)]
getTabState(t) == IF HasState(t) THEN tabStates ELSE initTabState(t)

\* the session of tab t (tabStates.get), when there is one
Session(t) == tabStates[t][1]
\* the handler's `state` object while it is live
FlowState(r) == Session(r.tab)

\* an assignment to fields of the handler's `state` object
Assign(r, new) ==
  tabStates' = IF r.live
                 THEN [tabStates EXCEPT ![r.tab] = Some(new)]
                 ELSE tabStates

\* every handler of tab t loses its session object
OrphanSet(t) == {IF r.tab = t THEN Stale(r) ELSE r : r \in Suspended}
Orphan(t) ==
  [q \in OrphanSet(t) |->
     IF q.tab = t /\ q.kind # "detached"
       THEN CopiesIn(q, flows) + CopiesIn([q EXCEPT !.live = TRUE], flows)
       ELSE CopiesIn(q, flows)]

\* checkServerHealth: what the health fetch outcome is turned into
checkServerHealth(outcome) ==
  IF outcome = "unreachable"
    THEN [success |-> FALSE, ollama |-> FALSE, error |-> "unreachable"]
    ELSE [success |-> TRUE, ollama |-> (outcome = "connected"), error |-> Null]

\* requestCancelByVideoId: the value the awaited cancel resolves to
requestCancelByVideoId(outcome) ==
  CASE outcome = "ok" -> Response(TRUE, FALSE, "cancelOk")
    [] outcome = "notOk" -> Response(FALSE, FALSE, "cancelNotOk")
    [] OTHER -> Response(FALSE, FALSE, "cancelFailed")

\* 149 without the duplicate check
IsPending_Never(t, v) == FALSE
\* 149: a request for the same key is in progress
IsPending(t, v) == requestKey(t, v) \in pendingRequests
\* 156 without the cancel of the previous video
LoadingOtherVideo_Never(state, v) == FALSE
\* 156: the session is loading another video
LoadingOtherVideo(state, v) ==
  state.isLoading /\ state.currentVideoId # Null /\ state.currentVideoId # v
\* 166 without 167: the language model's state is not looked at
HealthError_IgnoresOllama(health) ==
  IF ~health.success THEN health.error ELSE Null
\* 166-167: the error thrown after the health check, Null when none is
HealthError(health) ==
  IF ~health.success THEN health.error
  ELSE IF ~health.ollama THEN "ollama" ELSE Null
\* 169-171
StartLoading(state, v) ==
  [state EXCEPT !.isLoading = TRUE, !.currentVideoId = v, !.error = Null]
\* 187-191
ApplySuccess(state, result) ==
  [state EXCEPT !.subtitles = Some(result.segments),
                !.currentTaskId = result.task_id,
                !.sourceType = result.source_type,
                !.isActive = TRUE,
                !.isLoading = FALSE]
\* 209-210 taking the cancellation for an error
ApplyCancelled_SetsError(state) ==
  [state EXCEPT !.isLoading = FALSE, !.currentVideoId = Null, !.error = "cancelled"]
\* 209-210
ApplyCancelled(state) ==
  [state EXCEPT !.isLoading = FALSE, !.currentVideoId = Null]
\* 218-220 without 218: the session stays loading
ApplyError_KeepsLoading(state, err) ==
  [state EXCEPT !.currentVideoId = Null, !.error = err]
\* 218-220
ApplyError(state, err) ==
  [state EXCEPT !.isLoading = FALSE, !.currentVideoId = Null, !.error = err]
\* 234 taking an active session for one that has nothing to cancel only
\* when it is inactive too
NotLoading_NorActive(state) == ~state.isLoading /\ ~state.isActive
\* 234: nothing to cancel
NotLoading(state) == ~state.isLoading
\* 248 without 249
ResetLoading_KeepsVideo(state) == [state EXCEPT !.isLoading = FALSE]
\* 248-249
ResetLoading(state) ==
  [state EXCEPT !.isLoading = FALSE, !.currentVideoId = Null]

\* a handler that returns without calling sendResponse
Respond_Silent(r, resp) == out' = NoOut
\* sendResponse called by the handler of the message of call r
Respond(r, resp) == out' = [action |-> r.kind, vid |-> r.vid, resp |-> resp]
RespondTo(a, v, r) == out' = [action |-> a, vid |-> v, resp |-> r]

\* ------------------------------------------------- content.js, data model
Times == 0..MaxTime
Sizes == {"small", "medium", "large"}
NoText == << >>

\* content.js 11-33: `state`, lastVideoId (500), the element references
\* (elements: videoElement, playerContainer, subtitleContainer, controlButton
\* and loadingOverlay are set and cleared together), adCheckInterval, and
\* the class and text of the subtitle overlay element
NewPage(url) ==
  [isActive |-> FALSE, isLoading |-> FALSE, isInitialized |-> FALSE,
   subtitles |-> << >>, currentIndex |-> -1, currentTaskId |-> Null,
   currentVideoId |-> Null, showOriginal |-> FALSE, subtitleSize |-> "medium",
   isAdPlaying |-> FALSE, cachedSubtitles |-> None, pendingRequest |-> Null,
   lastVideoId |-> url, elements |-> FALSE, adCheckInterval |-> FALSE,
   hidden |-> TRUE, text |-> NoText]

\* A callback or event waiting to run in the page: the continuation of an
\* await with its local videoId and, once the background has answered, the
\* answer; a timer; an event to dispatch.
Call(kind, vid) == [kind |-> kind, vid |-> vid, resp |-> None]
Answered(c, resp) == [c EXCEPT !.resp = Some(resp)]
Waiting == BagToSet(calls)
CanWait == BagCardinality(calls) < MaxCalls
Later(c) == calls (+) SetToBag({c})
Run(c) == calls (-) SetToBag({c})
NoAck == [action |-> Null, resp |-> Null]

setLoading(p, isLoading) == [p EXCEPT !.isLoading = isLoading]

\* 436-438 with <= on the end bound
findIndex_EndInclusive(subs, t) ==
  LET hits == {i \in 1..Len(subs) : t >= subs[i].start /\ t <= subs[i].end}
  IN IF hits = {} THEN -1
     ELSE (CHOOSE i \in hits : \A j \in hits : i <= j) - 1
\* 436-438: Array.prototype.findIndex, the first match, counted from 0
findIndex(subs, t) ==
  LET hits == {i \in 1..Len(subs) : t >= subs[i].start /\ t < subs[i].end}
  IN IF hits = {} THEN -1
     ELSE (CHOOSE i \in hits : \A j \in hits : i <= j) - 1

\* 448-454: the content of the text element
Content(subtitle, showOriginal) ==
  IF showOriginal THEN << subtitle.translated, subtitle.original >>
  ELSE << subtitle.translated >>

\* 440 without the comparison: every run renders
updateSubtitle_Always(p, t) ==
  IF ~p.elements \/ Len(p.subtitles) = 0 THEN p
  ELSE LET subtitleIndex == findIndex(p.subtitles, t)
       IN IF subtitleIndex >= 0
            THEN [p EXCEPT !.currentIndex = subtitleIndex,
                           !.text = Content(p.subtitles[subtitleIndex + 1], p.showOriginal),
                           !.hidden = FALSE]
            ELSE [p EXCEPT !.currentIndex = subtitleIndex,
                           !.text = NoText, !.hidden = TRUE]
\* 431-461, run at playback time t
updateSubtitle(p, t) ==
  IF ~p.elements \/ Len(p.subtitles) = 0 THEN p
  ELSE LET subtitleIndex == findIndex(p.subtitles, t)
       IN IF subtitleIndex = p.currentIndex THEN p
          ELSE IF subtitleIndex >= 0
            THEN [p EXCEPT !.currentIndex = subtitleIndex,
                           !.text = Content(p.subtitles[subtitleIndex + 1], p.showOriginal),
                           !.hidden = FALSE]
            ELSE [p EXCEPT !.currentIndex = subtitleIndex,
                           !.text = NoText, !.hidden = TRUE]

\* 426-429
handleTimeUpdate(p, t) ==
  IF p.isAdPlaying \/ ~p.isActive \/ Len(p.subtitles) = 0 THEN p
  ELSE updateSubtitle(p, t)

\* 155-171 without the condition of 159: a snapshot is taken of any session
onAdStart_AlwaysSnapshots(p) ==
  [p EXCEPT !.isAdPlaying = TRUE,
            !.cachedSubtitles =
               Some([subtitles |-> p.subtitles, taskId |-> p.currentTaskId,
                     videoId |-> p.currentVideoId]),
            !.hidden = IF p.elements THEN TRUE ELSE p.hidden]
\* 155-171
onAdStart(p) ==
  [p EXCEPT !.isAdPlaying = TRUE,
            !.cachedSubtitles =
               IF p.isActive /\ Len(p.subtitles) > 0
                 THEN Some([subtitles |-> p.subtitles, taskId |-> p.currentTaskId,
                            videoId |-> p.currentVideoId])
                 ELSE p.cachedSubtitles,
            !.hidden = IF p.elements THEN TRUE ELSE p.hidden]

\* 179 without the comparison of video ids
CacheMatches_Any(p, url) == p.cachedSubtitles # None
\* 179
CacheMatches(p, url) ==
  p.cachedSubtitles # None /\ url = p.cachedSubtitles[1].videoId

\* 173-193 without line 188: the overlay is not shown again
onAdEnd_StaysHidden(p, url, t) ==
  LET q == [p EXCEPT !.isAdPlaying = FALSE]
  IN IF CacheMatches(q, url)
       THEN LET restored ==
                  [q EXCEPT !.subtitles = q.cachedSubtitles[1].subtitles,
                            !.currentTaskId = q.cachedSubtitles[1].taskId,
                            !.currentVideoId = q.cachedSubtitles[1].videoId,
                            !.isActive = TRUE]
            IN [updateSubtitle(restored, t) EXCEPT !.cachedSubtitles = None]
       ELSE q
\* 173-193, with the page at url and the playback time t
onAdEnd(p, url, t) ==
  LET q == [p EXCEPT !.isAdPlaying = FALSE]
  IN IF CacheMatches(q, url)
       THEN LET restored ==
                  [q EXCEPT !.subtitles = q.cachedSubtitles[1].subtitles,
                            !.currentTaskId = q.cachedSubtitles[1].taskId,
                            !.currentVideoId = q.cachedSubtitles[1].videoId,
                            !.isActive = TRUE,
                            !.hidden = IF q.elements THEN FALSE ELSE q.hidden]
            IN [updateSubtitle(restored, t) EXCEPT !.cachedSubtitles = None]
       ELSE q

\* 136-153: one poll; isAdNow is what the page's markup shows
checkAdStatus(p, isAdNow, url, t) ==
  IF ~p.elements THEN p
  ELSE IF isAdNow /\ ~p.isAdPlaying THEN onAdStart(p)
  ELSE IF ~isAdNow /\ p.isAdPlaying THEN onAdEnd(p, url, t)
  ELSE p

\* 370-383 without line 372: the segment list is kept
deactivateSubtitles_KeepsSubtitles(p) ==
  [p EXCEPT !.isActive = FALSE, !.currentIndex = -1,
            !.currentTaskId = Null, !.currentVideoId = Null,
            !.cachedSubtitles = None, !.pendingRequest = Null,
            !.hidden = IF p.elements THEN TRUE ELSE p.hidden]
\* 370-383
deactivateSubtitles(p) ==
  [p EXCEPT !.isActive = FALSE, !.subtitles = << >>, !.currentIndex = -1,
            !.currentTaskId = Null, !.currentVideoId = Null,
            !.cachedSubtitles = None, !.pendingRequest = Null,
            !.hidden = IF p.elements THEN TRUE ELSE p.hidden]

\* 71-76: the extension's elements leave the document
cleanupExistingElements(p) == [p EXCEPT !.hidden = TRUE, !.text = NoText]

\* 78-101 without 96-99: the ad poll keeps running
resetState_KeepsAdTimer(p) ==
  [p EXCEPT !.isActive = FALSE, !.isLoading = FALSE, !.isInitialized = FALSE,
            !.subtitles = << >>, !.currentIndex = -1, !.currentTaskId = Null,
            !.currentVideoId = Null, !.isAdPlaying = FALSE,
            !.cachedSubtitles = None, !.pendingRequest = Null,
            !.elements = FALSE]
\* 78-101
resetState(p) ==
  [p EXCEPT !.isActive = FALSE, !.isLoading = FALSE, !.isInitialized = FALSE,
            !.subtitles = << >>, !.currentIndex = -1, !.currentTaskId = Null,
            !.currentVideoId = Null, !.isAdPlaying = FALSE,
            !.cachedSubtitles = None, !.pendingRequest = Null,
            !.elements = FALSE, !.adCheckInterval = FALSE]

\* 307-308: cancelTranslation after its await
CancelTail(p) == setLoading([p EXCEPT !.pendingRequest = Null], FALSE)

\* 323-327: activateSubtitles up to its await
StartRequest(p, videoId) ==
  setLoading([p EXCEPT !.currentVideoId = videoId, !.pendingRequest = videoId], TRUE)

\* 336 without the check: an answer is applied whatever was requested since
IsStale_Never(p, videoId) == FALSE
\* 336: the page has moved on since the request was sent
IsStale(p, videoId) == p.pendingRequest # videoId

\* 336-367: activateSubtitles after its await, playback time t
OnTranslateResponse(p, videoId, response, t) ==
  LET done(q) == setLoading([q EXCEPT !.pendingRequest = Null], FALSE)
  IN IF IsStale(p, videoId) THEN done(p)
     ELSE IF response.success
       THEN LET shown ==
                  [p EXCEPT !.subtitles = response.data[1].segments,
                            !.currentTaskId = response.data[1].taskId,
                            !.isActive = TRUE,
                            !.hidden = IF p.elements THEN FALSE ELSE p.hidden]
            IN done(updateSubtitle(shown, t))
       ELSE done([p EXCEPT !.currentVideoId = Null])

\* 546-552: handleVideoChange after the cancel of the old video
ChangeTail(p) ==
  cleanupExistingElements(
    resetState(IF p.isActive THEN deactivateSubtitles(p) ELSE p))
\* 529-530
LeaveTail(p) == cleanupExistingElements(resetState(p))

\* 52-65: the then-callback of waitForElement('video'); a container that is
\* still in the document is taken as it is (200-203)
InitDone(p) ==
  [p EXCEPT !.elements = TRUE, !.isInitialized = TRUE, !.adCheckInterval = TRUE,
            !.hidden = IF p.elements THEN p.hidden ELSE TRUE,
            !.text = IF p.elements THEN p.text ELSE NoText]

\* ------------------------------------------------------------------- Init
Init ==
  /\ tabStates = [t \in Tabs |-> None]
  /\ pendingRequests = {}
  /\ flows = EmptyBag
  /\ tabOpen = [t \in Tabs |-> TRUE]
  /\ out = NoOut
  /\ page = NewPage("A")
  /\ location = "A"
  /\ calls = SetToBag({Call("initDone", Null)})
  /\ ack = NoAck

\* ------------------------------------------------- handleTranslate, 143-165
\* From the receipt of a translate message to the first await.
TranslateReceive(t, v) ==
  /\ tabOpen[t]
  /\ HasRoom
  /\ LET state == getTabState(t)[t][1]
     IN /\ tabStates' = getTabState(t)
        /\ IF IsPending(t, v)
             THEN /\ RespondTo("translate", v, Response(FALSE, FALSE, "duplicate"))
                  /\ UNCHANGED << pendingRequests, flows >>
             ELSE IF LoadingOtherVideo(state, v)
               THEN /\ flows' = Suspend(TranslateFlow(t, v, state.currentVideoId, "preCancel"))
                    /\ out' = NoOut
                    /\ UNCHANGED pendingRequests
               ELSE /\ pendingRequests' = pendingRequests \cup {requestKey(t, v)}
                    /\ flows' = Suspend(TranslateFlow(t, v, Null, "health"))
                    /\ out' = NoOut
  /\ UNCHANGED tabOpen

\* The awaited cancel of the other video returns (158), whatever its result:
\* the key is registered and the health check issued, 162-165.
TranslatePreCancelReturn(r, outcome) ==
  /\ BagIn(r, flows)
  /\ r.kind = "translate" /\ r.pc = "preCancel"
  /\ pendingRequests' = pendingRequests \cup {requestKey(r.tab, r.vid)}
  /\ flows' = Move(r, [r EXCEPT !.pc = "health", !.cvid = Null])
  /\ out' = NoOut
  /\ UNCHANGED << tabStates, tabOpen >>

\* 225 left out: the key is never removed
Unregister_Never(r) == UNCHANGED pendingRequests
\* 225: finally
Unregister(r) ==
  pendingRequests' = pendingRequests \ {requestKey(r.tab, r.vid)}

\* The catch and finally blocks, 217-226.
TranslateCatch(r, err) ==
  /\ Assign(r, ApplyError(FlowState(r), err))
  /\ Respond(r, Response(FALSE, FALSE, err))
  /\ Unregister(r)
  /\ flows' = Resume(r)

\* checkServerHealth returns, 165-181.
TranslateHealthReturn(r, outcome) ==
  /\ BagIn(r, flows)
  /\ r.kind = "translate" /\ r.pc = "health"
  /\ LET err == HealthError(checkServerHealth(outcome))
     IN IF err # Null THEN TranslateCatch(r, err)
        ELSE /\ Assign(r, StartLoading(FlowState(r), r.vid))
             /\ flows' = Move(r, [r EXCEPT !.pc = "notify"])
             /\ out' = NoOut
             /\ UNCHANGED pendingRequests
  /\ UNCHANGED tabOpen

\* chrome.tabs.sendMessage(updateState) settles, 176-184: the translate
\* call is issued.
TranslateNotifyReturn(r) ==
  /\ BagIn(r, flows)
  /\ r.kind = "translate" /\ r.pc = "notify"
  /\ flows' = Move(r, [r EXCEPT !.pc = "translate"])
  /\ out' = NoOut
  /\ UNCHANGED << tabStates, pendingRequests, tabOpen >>

\* requestTranslation returns or throws, 184-226.
TranslateReturn(r, outcome) ==
  /\ BagIn(r, flows)
  /\ r.kind = "translate" /\ r.pc = "translate"
  /\ LET result == BackendResult(r.vid, outcome.shape)
     IN CASE outcome.kind = "success" ->
               /\ Assign(r, ApplySuccess(FlowState(r), result))
               /\ Respond(r, SuccessPayload(result))
               /\ Unregister(r)
               /\ flows' = Resume(r)
          [] outcome.kind = "notSuccess" ->
               /\ Assign(r, ApplyCancelled(FlowState(r)))
               /\ Respond(r, Response(FALSE, TRUE, "cancelled"))
               /\ Unregister(r)
               /\ flows' = Resume(r)
          [] OTHER -> TranslateCatch(r, "failure")
  /\ UNCHANGED tabOpen

\* ------------------------------------------ handleCancelTranslation, 229-254
\* From the receipt of a cancelTranslation message to the await at 247.
\* mv is message.videoId (Null when the message carries none).
CancelReceive(t, mv) ==
  /\ tabOpen[t]
  /\ HasRoom
  /\ LET state == getTabState(t)[t][1]
         videoId == IF mv # Null THEN mv ELSE state.currentVideoId
     IN /\ tabStates' = getTabState(t)
        /\ IF NotLoading(state)
             THEN /\ RespondTo("cancel", mv, Response(TRUE, FALSE, "nothingToCancel"))
                  /\ UNCHANGED << pendingRequests, flows >>
             ELSE IF videoId # Null
               THEN /\ pendingRequests' = pendingRequests \ {requestKey(t, videoId)}
                    /\ flows' = Suspend(CancelFlow(t, mv, videoId))
                    /\ out' = NoOut
               ELSE /\ RespondTo("cancel", mv, Response(FALSE, FALSE, "noTask"))
                    /\ UNCHANGED << pendingRequests, flows >>
  /\ UNCHANGED tabOpen

\* requestCancelByVideoId returns, 247-250.
CancelReturn(r, outcome) ==
  /\ BagIn(r, flows)
  /\ r.kind = "cancel"
  /\ Assign(r, ResetLoading(FlowState(r)))
  /\ Respond(r, requestCancelByVideoId(outcome))
  /\ flows' = Resume(r)
  /\ UNCHANGED << pendingRequests, tabOpen >>

\* ------------------------------------------------------ tab events, 260-297
\* chrome.tabs.onRemoved.  The browser never reuses the id of a removed tab,
\* so no message and no update event of that tab follows.
TabRemoved(t) ==
  /\ tabOpen[t]
  /\ tabOpen' = [tabOpen EXCEPT ![t] = FALSE]
  /\ IF HasState(t) /\ Session(t).isLoading /\ Session(t).currentVideoId # Null
       THEN /\ HasRoom
            /\ flows' = Orphan(t) (+) SetToBag({DetachedCancel(t, Session(t).currentVideoId)})
       ELSE flows' = Orphan(t)
  /\ pendingRequests' = {k \in pendingRequests : k[1] # t}
  /\ tabStates' = [tabStates EXCEPT ![t] = None]
  /\ out' = NoOut

\* chrome.tabs.onUpdated with a youtube url whose video id is nv (Null: the
\* url has no v parameter).  Every other case of the listener changes nothing.
TabUpdated(t, nv) ==
  /\ tabOpen[t]
  /\ HasState(t)
  /\ nv # Session(t).currentVideoId
  /\ Session(t).isLoading
  /\ Session(t).currentVideoId # Null
  /\ HasRoom
  /\ flows' = Orphan(t) (+) SetToBag({DetachedCancel(t, Session(t).currentVideoId)})
  /\ pendingRequests' = pendingRequests \ {requestKey(t, Session(t).currentVideoId)}
  /\ tabStates' = initTabState(t)
  /\ out' = NoOut
  /\ UNCHANGED tabOpen

\* A cancel call issued without await (264, 288) returns; nobody reads it.
DetachedCancelReturn(r) ==
  /\ BagIn(r, flows)
  /\ r.kind = "detached"
  /\ flows' = Resume(r)
  /\ out' = NoOut
  /\ UNCHANGED << tabStates, pendingRequests, tabOpen >>

\* The background alone: messages of any kind arrive at any time, the page
\* context is left out.
Next ==
  \/ \E t \in Tabs, v \in Videos : TranslateReceive(t, v) /\ UNCHANGED pvars
  \/ \E r \in Suspended, o \in CancelOutcomes :
       TranslatePreCancelReturn(r, o) /\ UNCHANGED pvars
  \/ \E r \in Suspended, o \in HealthOutcomes :
       TranslateHealthReturn(r, o) /\ UNCHANGED pvars
  \/ \E r \in Suspended : TranslateNotifyReturn(r) /\ UNCHANGED pvars
  \/ \E r \in Suspended, o \in TranslateOutcomes :
       TranslateReturn(r, o) /\ UNCHANGED pvars
  \/ \E t \in Tabs, mv \in Videos \cup {Null} : CancelReceive(t, mv) /\ UNCHANGED pvars
  \/ \E r \in Suspended, o \in CancelOutcomes : CancelReturn(r, o) /\ UNCHANGED pvars
  \/ \E t \in Tabs : TabRemoved(t) /\ UNCHANGED pvars
  \/ \E t \in Tabs, nv \in Videos \cup {Null} : TabUpdated(t, nv) /\ UNCHANGED pvars
  \/ \E r \in Suspended : DetachedCancelReturn(r) /\ UNCHANGED pvars

Spec == Init /\ [][Next]_vars

\* Every suspended call is resumed: each backend call and each message to
\* the page eventually returns or fails.
FlowStep(r) ==
  \/ \E o \in CancelOutcomes : TranslatePreCancelReturn(r, o)
  \/ \E o \in HealthOutcomes : TranslateHealthReturn(r, o)
  \/ TranslateNotifyReturn(r)
  \/ \E o \in TranslateOutcomes : TranslateReturn(r, o)
  \/ \E o \in CancelOutcomes : CancelReturn(r, o)
  \/ DetachedCancelReturn(r)

FairSpec == Spec /\ \A r \in AllFlowRecs : WF_vars(FlowStep(r) /\ UNCHANGED pvars)

\* ------------------------------------------- content.js, message listener
\* the messages the page listener is sent: updateState by the background
\* (176-180), setOption by the popup, anything else
PageMessages ==
  {[action |-> "updateState", isLoading |-> b, showOriginal |-> None, subtitleSize |-> Null] :
      b \in {Some(TRUE), Some(FALSE), None}}
    \cup {[action |-> "setOption", isLoading |-> None, showOriginal |-> b, subtitleSize |-> z] :
            b \in {Some(TRUE), Some(FALSE), None}, z \in Sizes \cup {Null}}
    \cup {[action |-> "other", isLoading |-> None, showOriginal |-> None, subtitleSize |-> Null]}

\* 467-494: what the listener does to the page
OnPageMessage(p, message) ==
  CASE message.action = "updateState" ->
         IF message.isLoading # None THEN setLoading(p, message.isLoading[1]) ELSE p
    [] message.action = "setOption" ->
         [p EXCEPT !.showOriginal =
                     IF message.showOriginal # None THEN message.showOriginal[1] ELSE @,
                   !.subtitleSize =
                     IF message.subtitleSize # Null THEN message.subtitleSize ELSE @]
    [] OTHER -> p
\* 475, 487, 491: what it answers
PageAnswer(message) ==
  [action |-> message.action,
   resp |-> IF message.action \in {"updateState", "setOption"} THEN "success"
            ELSE "unknownAction"]

\* ------------------------------------------------- content.js, the steps
\* Each step is one run of a page callback from its start or from an await
\* to the next await or the end.  `answer` is the background's answer to the
\* message the step sends when that answer is given at once (None otherwise).
Tab == "t1"
AwaitKinds == {"translate", "toggleCancel", "leaveCancel", "changeCancel"}
CancelKinds == {"toggleCancel", "leaveCancel", "changeCancel"}
NoMessage == [action |-> Null, vid |-> Null]

\* the code after the await of call c, given the answer
Continue(c, resp, t) ==
  CASE c.kind = "translate" ->
         /\ page' = OnTranslateResponse(page, c.vid, resp, t)
         /\ calls' = Run(c)
    [] c.kind = "toggleCancel" ->
         /\ page' = CancelTail(page)
         /\ calls' = Run(c)
    [] c.kind = "leaveCancel" ->
         /\ page' = LeaveTail(page)
         /\ calls' = Run(c)
    [] c.kind = "changeCancel" ->
         /\ page' = ChangeTail(page)
         /\ calls' = Run(c) (+) SetToBag({Call("initialize", Null)})

\* 264-288: the message a click on the control button sends
ToggleMessage(p, url) ==
  IF p.isLoading
    THEN IF p.currentVideoId = Null THEN NoMessage
         ELSE [action |-> "cancelTranslation", vid |-> p.currentVideoId]
    ELSE IF p.isActive \/ url = Null THEN NoMessage
         ELSE [action |-> "translate", vid |-> url]

\* 264-288: a click on the control button, up to the await or the end
PageToggle(answer) ==
  /\ tabOpen[Tab] /\ page.elements
  /\ ~page.isAdPlaying /\ page.pendingRequest = Null
  /\ ack' = NoAck /\ UNCHANGED location
  /\ LET message == ToggleMessage(page, location)
     IN CASE message.action = "cancelTranslation" ->
               /\ CanWait
               /\ page' = page
               /\ calls' = Later([Call("toggleCancel", message.vid) EXCEPT !.resp = answer])
          [] message.action = "translate" ->
               /\ CanWait
               /\ page' = StartRequest(page, message.vid)
               /\ calls' = Later([Call("translate", message.vid) EXCEPT !.resp = answer])
          [] OTHER ->
               /\ answer = None
               /\ page' = IF page.isLoading THEN setLoading(page, FALSE)
                          ELSE IF page.isActive THEN deactivateSubtitles(page)
                          ELSE page
               /\ UNCHANGED calls

\* the await of call c ends with the answer resp, at playback time t
PageResume(c, resp, t) ==
  /\ BagIn(c, calls) /\ c.kind \in AwaitKinds
  /\ Continue(c, resp, t)
  /\ ack' = NoAck /\ UNCHANGED location

\* the url of the tab changes (navigation inside the site):
\* yt-navigate-finish will be dispatched
PageUrlChange(nv) ==
  /\ tabOpen[Tab]
  /\ nv # location
  /\ CanWait
  /\ location' = nv
  /\ calls' = Later(Call("navigate", Null))
  /\ ack' = NoAck /\ UNCHANGED page

\* 507-544: the message handleVideoChange sends
VideoChangeMessage(p, url) ==
  IF url = p.lastVideoId THEN NoMessage
  ELSE IF url = Null
    THEN IF p.isInitialized /\ p.isLoading /\ p.currentVideoId # Null
           THEN [action |-> "cancelTranslation", vid |-> p.currentVideoId]
           ELSE NoMessage
    ELSE IF p.isLoading /\ p.lastVideoId # Null
           THEN [action |-> "cancelTranslation", vid |-> p.lastVideoId]
           ELSE NoMessage

\* yt-navigate-finish is dispatched: handleVideoChange up to its await or
\* its end, 507-556
PageVideoChange(c, answer) ==
  /\ BagIn(c, calls) /\ c.kind = "navigate"
  /\ ack' = NoAck /\ UNCHANGED location
  /\ LET currentVideoId == location
         message == VideoChangeMessage(page, location)
         p == [page EXCEPT !.lastVideoId = currentVideoId]
     IN IF currentVideoId = page.lastVideoId
          THEN /\ answer = None
               /\ calls' = Run(c)
               /\ UNCHANGED page
          ELSE IF message.action = "cancelTranslation"
            THEN /\ page' = p
                 /\ calls' = Run(c) (+) SetToBag(
                      {[Call(IF currentVideoId = Null THEN "leaveCancel" ELSE "changeCancel",
                             message.vid) EXCEPT !.resp = answer]})
            ELSE /\ answer = None
                 /\ IF currentVideoId = Null
                      THEN /\ page' = IF p.isInitialized THEN LeaveTail(p) ELSE p
                           /\ calls' = Run(c)
                      ELSE /\ page' = ChangeTail(p)
                           /\ calls' = Run(c) (+) SetToBag({Call("initialize", Null)})

\* setTimeout(initialize, 500) fires: initialize up to waitForElement, 39-52
PageInitialize(c) ==
  /\ BagIn(c, calls) /\ c.kind = "initialize"
  /\ IF location = Null \/ page.isInitialized
       THEN /\ calls' = Run(c)
            /\ UNCHANGED page
       ELSE /\ page' = cleanupExistingElements(page)
            /\ calls' = Run(c) (+) SetToBag({Call("initDone", Null)})
  /\ ack' = NoAck /\ UNCHANGED location

\* waitForElement settles: the video element was found, or the wait timed out
PageInitDone(c, found) ==
  /\ BagIn(c, calls) /\ c.kind = "initDone"
  /\ page' = IF found THEN InitDone(page) ELSE page
  /\ calls' = Run(c)
  /\ ack' = NoAck /\ UNCHANGED location

\* the ad poll fires, 133-153
PagePoll(isAdNow, t) ==
  /\ tabOpen[Tab] /\ page.adCheckInterval
  /\ page' = checkAdStatus(page, isAdNow, location, t)
  /\ ack' = NoAck /\ UNCHANGED << location, calls >>

\* timeupdate or seeked on the video element, 426-429
PageTimeUpdate(t) ==
  /\ tabOpen[Tab]
  /\ page' = handleTimeUpdate(page, t)
  /\ ack' = NoAck /\ UNCHANGED << location, calls >>

\* the listener receives a message, 467-494
PageListener(message) ==
  /\ tabOpen[Tab]
  /\ page' = OnPageMessage(page, message)
  /\ ack' = PageAnswer(message)
  /\ UNCHANGED << location, calls >>

\* ------------------------------------------------ the page context alone
\* The background is left out: every message the page sends is answered at
\* some later time with one of the answers the background gives.
LoadingNotice ==
  [action |-> "updateState", isLoading |-> Some(TRUE), showOriginal |-> None,
   subtitleSize |-> Null]
\* the backend's segment lists are sorted here
SortedOutcomes == {o \in TranslateOutcomes : o.shape # "unsorted"}
\* 151, 195-207, 211-215, 222: the answers to translate
TranslateAnswers(v) ==
  {SuccessPayload(BackendResult(v, o.shape)) : o \in {x \in SortedOutcomes : x.kind = "success"}}
    \cup {Response(FALSE, TRUE, "cancelled"), Response(FALSE, FALSE, "failure")}
\* 236, 250, 252: the page does not look at the answer to cancelTranslation
CancelAnswers ==
  {requestCancelByVideoId(o) : o \in CancelOutcomes}
    \cup {Response(TRUE, FALSE, "nothingToCancel"), Response(FALSE, FALSE, "noTask")}
Answers(c) == IF c.kind = "translate" THEN TranslateAnswers(c.vid) ELSE CancelAnswers

PageNext ==
  \/ PageToggle(None) /\ UNCHANGED bvars
  \/ \E c \in Waiting, t \in Times : \E resp \in Answers(c) :
       PageResume(c, resp, t) /\ UNCHANGED bvars
  \/ \E nv \in Videos \cup {Null} : PageUrlChange(nv) /\ UNCHANGED bvars
  \/ \E c \in Waiting : PageVideoChange(c, None) /\ UNCHANGED bvars
  \/ \E c \in Waiting : PageInitialize(c) /\ UNCHANGED bvars
  \/ \E c \in Waiting, found \in BOOLEAN : PageInitDone(c, found) /\ UNCHANGED bvars
  \/ \E isAdNow \in BOOLEAN, t \in Times : PagePoll(isAdNow, t) /\ UNCHANGED bvars
  \/ \E t \in Times : PageTimeUpdate(t) /\ UNCHANGED bvars
  \/ PageListener(LoadingNotice) /\ UNCHANGED bvars

PageSpec == Init /\ [][PageNext]_vars

\* --------------------------------------------------- the synchronizer alone
\* updateSubtitle on an active session that holds any segment list sorted by
\* start with no two segments overlapping, run at any playback time.
Intervals == {iv \in Times \X Times : iv[1] < iv[2]}
Ordered(ivs) == \A i \in 1..(Len(ivs) - 1) : ivs[i][2] <= ivs[i + 1][1]
SegmentLists ==
  {[i \in 1..Len(ivs) |-> Segment("A", i, ivs[i][1], ivs[i][2])] :
     ivs \in {x \in UNION {[1..n -> Intervals] : n \in 1..MaxSegments} : Ordered(x)}}

\* 343-349: the session as activateSubtitles leaves it before its first
\* synchronizer run
Activated(subs, showOriginal) ==
  [InitDone(NewPage("A")) EXCEPT
     !.subtitles = subs, !.currentTaskId = "A", !.currentVideoId = "A",
     !.isActive = TRUE, !.hidden = FALSE, !.showOriginal = showOriginal]

SyncInit ==
  /\ tabStates = [t \in Tabs |-> None]
  /\ pendingRequests = {}
  /\ flows = EmptyBag
  /\ tabOpen = [t \in Tabs |-> TRUE]
  /\ out = NoOut
  /\ \E subs \in SegmentLists, showOriginal \in BOOLEAN :
       page = Activated(subs, showOriginal)
  /\ location = "A"
  /\ calls = EmptyBag
  /\ ack = NoAck

SyncNext == \E t \in Times : PageTimeUpdate(t) /\ UNCHANGED bvars

SyncSpec == SyncInit /\ [][SyncNext]_vars

\* ------------------------------------ the synchronizer and the popup
\* The synchronizer as above, with the setOption messages of the popup
\* (478-488) arriving between the time updates.
SetOptionMessages == {m \in PageMessages : m.action = "setOption"}

RenderNext ==
  \/ \E t \in Times : PageTimeUpdate(t) /\ UNCHANGED bvars
  \/ \E message \in SetOptionMessages : PageListener(message) /\ UNCHANGED bvars

RenderSpec == SyncInit /\ [][RenderNext]_vars

\* -------------------------------------------- the page and the background
\* One open tab, its page context and the background.  A message of the page
\* is received by the background in the step that sends it; an answer the
\* background gives later resumes the page's await in the step that gives it.
BgIdle == out' = NoOut /\ UNCHANGED << tabStates, pendingRequests, flows, tabOpen >>
\* the answer the background gave in this step to a message of kind a, if any
Immediate(a) == IF out'.action = a THEN Some(out'.resp) ELSE None

\* chrome.runtime.onMessage of the background gets the message of the page
Deliver(message) ==
  CASE message.action = "translate" -> TranslateReceive(Tab, message.vid)
    [] message.action = "cancelTranslation" -> CancelReceive(Tab, message.vid)
    [] OTHER -> BgIdle
Reply(message) ==
  CASE message.action = "translate" -> Immediate("translate")
    [] message.action = "cancelTranslation" -> Immediate("cancel")
    [] OTHER -> None

SysToggle ==
  /\ tabOpen[Tab] /\ page.elements
  /\ Deliver(ToggleMessage(page, location))
  /\ PageToggle(Reply(ToggleMessage(page, location)))

\* the answer the background gave at once reaches the page
SysAnswer(c, t) ==
  /\ BagIn(c, calls) /\ c.resp # None
  /\ PageResume(c, c.resp[1], t)
  /\ BgIdle

SysPreCancelReturn(r, o) ==
  /\ TranslatePreCancelReturn(r, o)
  /\ ack' = NoAck /\ UNCHANGED << page, location, calls >>

SysHealthReturn(r, o) ==
  /\ TranslateHealthReturn(r, o)
  /\ IF out'.action = "translate"
       THEN PageResume(Call("translate", r.vid), out'.resp, 0)
       ELSE ack' = NoAck /\ UNCHANGED << page, location, calls >>

\* the page listener gets updateState and the background's await settles
SysNotifyReturn(r) ==
  /\ TranslateNotifyReturn(r)
  /\ PageListener(LoadingNotice)

SysTranslateReturn(r, o, t) ==
  /\ TranslateReturn(r, o)
  /\ PageResume(Call("translate", r.vid), out'.resp, t)

SysCancelReturn(r, o) ==
  /\ CancelReturn(r, o)
  /\ \E c \in Waiting :
       /\ c.kind \in CancelKinds /\ c.vid = r.cvid /\ c.resp = None
       /\ PageResume(c, out'.resp, 0)

SysDetachedReturn(r) ==
  /\ DetachedCancelReturn(r)
  /\ ack' = NoAck /\ UNCHANGED << page, location, calls >>

\* 286
NavigatedAway(t, nv) ==
  /\ HasState(t)
  /\ nv # Session(t).currentVideoId
  /\ Session(t).isLoading
  /\ Session(t).currentVideoId # Null

\* The url of the tab changes: chrome.tabs.onUpdated runs in the background
\* (278-297) and yt-navigate-finish will be dispatched in the page.
SysUrlChange(nv) ==
  /\ PageUrlChange(nv)
  /\ IF NavigatedAway(Tab, nv) THEN TabUpdated(Tab, nv) ELSE BgIdle

SysVideoChange(c) ==
  /\ BagIn(c, calls) /\ c.kind = "navigate"
  /\ Deliver(VideoChangeMessage(page, location))
  /\ PageVideoChange(c, Reply(VideoChangeMessage(page, location)))

SysNext ==
  \/ SysToggle
  \/ \E c \in Waiting, t \in Times : SysAnswer(c, t)
  \/ \E r \in Suspended, o \in CancelOutcomes : SysPreCancelReturn(r, o)
  \/ \E r \in Suspended, o \in HealthOutcomes : SysHealthReturn(r, o)
  \/ \E r \in Suspended : SysNotifyReturn(r)
  \/ \E r \in Suspended, o \in SortedOutcomes, t \in Times : SysTranslateReturn(r, o, t)
  \/ \E r \in Suspended, o \in CancelOutcomes : SysCancelReturn(r, o)
  \/ \E r \in Suspended : SysDetachedReturn(r)
  \/ \E nv \in Videos \cup {Null} : SysUrlChange(nv)
  \/ \E c \in Waiting : SysVideoChange(c)
  \/ \E c \in Waiting : PageInitialize(c) /\ BgIdle
  \/ \E c \in Waiting, found \in BOOLEAN : PageInitDone(c, found) /\ BgIdle
  \/ \E isAdNow \in BOOLEAN, t \in Times : PagePoll(isAdNow, t) /\ BgIdle
  \/ \E t \in Times : PageTimeUpdate(t) /\ BgIdle

SysSpec == Init /\ [][SysNext]_vars

\* ------------------------------------------------------ the two routers
\* handleMessage with every kind of message (110-141) and the listener of
\* the page (467-494), each message arriving at any time.
HealthFlow(t) ==
  [kind |-> "checkHealth", tab |-> t, vid |-> Null, live |-> TRUE, cvid |-> Null,
   pc |-> "health"]
RouterFlowRecs == FlowRecs \cup {HealthFlow(t) : t \in Tabs}

\* 50-58: the value checkHealth is answered with
HealthResponse(health) ==
  Response(health.success, FALSE,
           IF ~health.success THEN "unreachable"
           ELSE IF health.ollama THEN "connected" ELSE "notConnected")

\* 113-114: checkHealth up to the await
HealthReceive(t) ==
  /\ tabOpen[t]
  /\ HasRoom
  /\ flows' = Suspend(HealthFlow(t))
  /\ out' = NoOut
  /\ UNCHANGED << tabStates, pendingRequests, tabOpen >>

\* 114: checkServerHealth returns
HealthReturn(r, outcome) ==
  /\ BagIn(r, flows)
  /\ r.kind = "checkHealth"
  /\ flows' = Resume(r)
  /\ Respond(r, HealthResponse(checkServerHealth(outcome)))
  /\ UNCHANGED << tabStates, pendingRequests, tabOpen >>

\* 125-127
GetState(t) ==
  /\ tabOpen[t]
  /\ tabStates' = getTabState(t)
  /\ RespondTo("getState", Null,
               [Response(FALSE, FALSE, "state") EXCEPT !.data = Some(getTabState(t)[t][1])])
  /\ UNCHANGED << pendingRequests, flows, tabOpen >>

\* message.state of setState: the fields to write
NoPatch == [f \in {} |-> FALSE]
StatePatches == {NoPatch, [isLoading |-> TRUE]}
\* Object.assign, 130
ObjectAssign(state, patch) ==
  [f \in DOMAIN state |-> IF f \in DOMAIN patch THEN patch[f] ELSE state[f]]

\* 129-132
SetState(t, patch) ==
  /\ tabOpen[t]
  /\ tabStates' = [getTabState(t) EXCEPT
                     ![t] = Some(ObjectAssign(getTabState(t)[t][1], patch))]
  /\ RespondTo("setState", Null, Response(TRUE, FALSE, "stateSet"))
  /\ UNCHANGED << pendingRequests, flows, tabOpen >>

\* 134-135
UnknownAction(t) ==
  /\ tabOpen[t]
  /\ RespondTo("unknown", Null, Response(FALSE, FALSE, "unknownAction"))
  /\ UNCHANGED << tabStates, pendingRequests, flows, tabOpen >>

\* the three outcomes of requestTranslation, one segment list
RouterOutcomes == {o \in TranslateOutcomes : o.shape \in {"sorted", Null}}

\* The two routers share no variable.  A behaviour exercises one of them:
\* the background router while the page has received nothing, or the page
\* listener while the background has received nothing.
NothingReceived ==
  /\ tabStates = [t \in Tabs |-> None] /\ pendingRequests = {}
  /\ flows = EmptyBag /\ out = NoOut
NothingListened == page = NewPage("A") /\ ack = NoAck
InBackground(step) ==
  /\ NothingListened
  /\ step
  /\ ack' = NoAck /\ UNCHANGED << page, location, calls >>

RouterNext ==
  \/ \E t \in Tabs, v \in Videos : InBackground(TranslateReceive(t, v))
  \/ \E r \in Suspended, o \in CancelOutcomes : InBackground(TranslatePreCancelReturn(r, o))
  \/ \E r \in Suspended, o \in HealthOutcomes : InBackground(TranslateHealthReturn(r, o))
  \/ \E r \in Suspended : InBackground(TranslateNotifyReturn(r))
  \/ \E r \in Suspended, o \in RouterOutcomes : InBackground(TranslateReturn(r, o))
  \/ \E t \in Tabs, mv \in Videos \cup {Null} : InBackground(CancelReceive(t, mv))
  \/ \E r \in Suspended, o \in CancelOutcomes : InBackground(CancelReturn(r, o))
  \/ \E t \in Tabs : InBackground(HealthReceive(t))
  \/ \E r \in Suspended, o \in HealthOutcomes : InBackground(HealthReturn(r, o))
  \/ \E t \in Tabs : InBackground(GetState(t))
  \/ \E t \in Tabs, patch \in StatePatches : InBackground(SetState(t, patch))
  \/ \E t \in Tabs : InBackground(UnknownAction(t))
  \/ \E message \in PageMessages : NothingReceived /\ PageListener(message) /\ BgIdle

\* each backend call eventually returns or fails
RouterFlowStep(r) ==
  \/ \E o \in CancelOutcomes : TranslatePreCancelReturn(r, o)
  \/ \E o \in HealthOutcomes : TranslateHealthReturn(r, o)
  \/ TranslateNotifyReturn(r)
  \/ \E o \in RouterOutcomes : TranslateReturn(r, o)
  \/ \E o \in CancelOutcomes : CancelReturn(r, o)
  \/ \E o \in HealthOutcomes : HealthReturn(r, o)

RouterSpec ==
  /\ Init /\ [][RouterNext]_vars
  /\ \A r \in RouterFlowRecs : WF_vars(InBackground(RouterFlowStep(r)))

\* ------------------------------------------------------------- properties
Key(r) == requestKey(r.tab, r.vid)
IsTranslate(r) == r.kind = "translate"
IsCancel(r) == r.kind = "cancel"
\* the handler has passed line 162
Registered(r) == IsTranslate(r) /\ r.pc \in {"health", "notify", "translate"}
\* the suspended call r returns in this step
Returns(r) == BagIn(r, flows) /\ flows' = Resume(r)
\* how many of the calls of bag b are in the set S
CountIn(b, S) == BagCardinality([q \in S \cap BagToSet(b) |-> b[q]])
\* translate calls issued and not yet returned, for one key
TranslateCalls(t, v) ==
  CountIn(flows, {q \in AllFlowRecs : IsTranslate(q) /\ q.pc = "translate"
                                      /\ q.tab = t /\ q.vid = v})
\* the handlers of translate(t, v) messages suspended at pc
HandlersAt(b, t, v, pc) ==
  CountIn(b, {q \in AllFlowRecs : IsTranslate(q) /\ q.pc = pc
                                  /\ q.tab = t /\ q.vid = v})
\* the step suspends one more call, a live one of this kind for message video v
Accepted(kind, v) ==
  \E q \in FlowRecs : /\ q.kind = kind /\ q.vid = v
                      /\ flows' = Suspend(q)
NextSession(t) == tabStates'[t][1]

\* C1: at most one backend translate call for the same (tabId, videoId) is
\* outstanding at any time.
C1_AtMostOneTranslateCall ==
  \A t \in Tabs, v \in Videos : TranslateCalls(t, v) <= 1

\* C2: a translate message for a key that is pending is answered at once with
\* a failure, issues no backend call, and leaves the session and the pending
\* set unchanged.
C2_DuplicateRejected ==
  [][\A t \in Tabs, v \in Videos :
       (requestKey(t, v) \in pendingRequests /\ TranslateReceive(t, v))
         => /\ out'.action = "translate" /\ out'.vid = v
            /\ ~out'.resp.success
            /\ flows' = flows
            /\ tabStates' = tabStates
            /\ pendingRequests' = pendingRequests]_vars

C2_Witness == out.action = "translate" /\ out.resp.kind = "duplicate"

\* C3: a translate handler that registered its key has removed it when it
\* returns, whatever the outcome; provided every backend call returns, no key
\* stays pending forever, and a translate for a key that is not pending is
\* accepted.
C3_PendingKeyReleased ==
  /\ [][\A r \in Suspended : (Registered(r) /\ Returns(r))
          => Key(r) \notin pendingRequests']_vars
  /\ [][\A t \in Tabs, v \in Videos :
          (requestKey(t, v) \notin pendingRequests /\ TranslateReceive(t, v))
            => /\ Accepted("translate", v)
               /\ out' = NoOut]_vars
  /\ \A t \in Tabs, v \in Videos :
       (requestKey(t, v) \in pendingRequests)
         ~> (requestKey(t, v) \notin pendingRequests)

C3_Witness ==
  /\ out.action = "translate" /\ out.resp.kind = "failure"
  /\ requestKey("t1", out.vid) \notin pendingRequests

\* C4: when cancelTranslation has reset a loading session and the in-flight
\* translate call of that video then returns success, the payload is not
\* applied: the session stays inactive and gets no subtitles, taskId or
\* sourceType.  Stated for the step that follows the cancel's answer.
C4_LateSuccessNotApplied ==
  [][\A r \in Suspended :
       (/\ out.action = "cancel"
        /\ out.resp.kind \in {"cancelOk", "cancelNotOk", "cancelFailed"}
        /\ IsTranslate(r) /\ r.pc = "translate" /\ r.live
        /\ r.vid = out.vid
        /\ ~FlowState(r).isLoading /\ ~FlowState(r).isActive
        /\ FlowState(r).currentVideoId = Null
        /\ \E o \in TranslateOutcomes : o.kind = "success" /\ TranslateReturn(r, o))
         => /\ ~NextSession(r.tab).isActive
            /\ NextSession(r.tab).subtitles = FlowState(r).subtitles
            /\ NextSession(r.tab).currentTaskId = FlowState(r).currentTaskId
            /\ NextSession(r.tab).sourceType = FlowState(r).sourceType]_vars

\* the session holds the result of a successful translation of video v
HoldsResultOf(state, v) ==
  /\ state.currentVideoId = v
  /\ state.isActive
  /\ ~state.isLoading
  /\ state.currentTaskId = v
  /\ state.subtitles \in {Some(BackendSegments(v, s)) : s \in Shapes}

\* C5: a tab that was loading A moved to B (the cancel for A removed A's key,
\* B was accepted and succeeded); when the last outstanding call, the late
\* one for A, returns, the session still has currentVideoId = B, isActive,
\* not isLoading, and the subtitles of B.
C5_LastVideoWins ==
  [][\A r \in Suspended, o \in TranslateOutcomes :
       (/\ IsTranslate(r) /\ r.pc = "translate" /\ r.live
        /\ r.vid = "A"
        /\ Key(r) \notin pendingRequests
        /\ flows = SetToBag({r})
        /\ HoldsResultOf(FlowState(r), "B")
        /\ TranslateReturn(r, o))
         => HoldsResultOf(NextSession(r.tab), "B")]_vars

\* C6: a translate for B accepted while the session is loading another video
\* A issues and awaits a cancel for A before anything else (no key
\* registered, no health check, no translate call yet), and goes on to
\* register and check health when that cancel returns, whatever its result.
C6_CancelOtherFirst ==
  /\ [][\A t \in Tabs, v \in Videos :
          (/\ HasState(t) /\ Session(t).isLoading
           /\ Session(t).currentVideoId \notin {Null, v}
           /\ requestKey(t, v) \notin pendingRequests
           /\ TranslateReceive(t, v))
            => /\ flows' = Suspend(TranslateFlow(t, v, Session(t).currentVideoId,
                                                 "preCancel"))
               /\ requestKey(t, v) \notin pendingRequests']_vars
  /\ [][\A t \in Tabs, v \in Videos :
          HandlersAt(flows', t, v, "preCancel") < HandlersAt(flows, t, v, "preCancel")
            => /\ HandlersAt(flows', t, v, "health")
                    = HandlersAt(flows, t, v, "health") + 1
               /\ HandlersAt(flows', t, v, "notify") <= HandlersAt(flows, t, v, "notify")
               /\ HandlersAt(flows', t, v, "translate")
                    <= HandlersAt(flows, t, v, "translate")
               /\ requestKey(t, v) \in pendingRequests']_vars
  /\ [][\A r \in Suspended, o \in CancelOutcomes :
          TranslatePreCancelReturn(r, o)
            => /\ flows' = Move(r, [r EXCEPT !.pc = "health", !.cvid = Null])
               /\ Key(r) \in pendingRequests']_vars
  /\ \A r \in Suspended :
       /\ r \in AllFlowRecs
       /\ (r.pc = "preCancel") => (IsTranslate(r) /\ r.cvid \in Videos \ {r.vid})

C6_Witness ==
  \E r \in Suspended :
    /\ IsTranslate(r) /\ r.pc = "preCancel"
    /\ r.vid = "B" /\ r.cvid = "A"
    /\ Key(r) \notin pendingRequests

NotLoadingNext(t) == tabStates'[t] # None => ~NextSession(t).isLoading
\* the video a cancelTranslation message resolves to, 231
CancelTarget(t, mv) == IF mv # Null THEN mv ELSE Session(t).currentVideoId

C8_CancelIdleNoOp ==
  [][\A t \in Tabs, mv \in Videos \cup {Null} :
       (HasState(t) /\ ~Session(t).isLoading /\ CancelReceive(t, mv))
         => /\ out'.action = "cancel" /\ out'.resp.success
            /\ flows' = flows
            /\ tabStates' = tabStates
            /\ pendingRequests' = pendingRequests]_vars

C8_Witness ==
  /\ out.action = "cancel" /\ out.resp.kind = "nothingToCancel"
  /\ HasState("t1") /\ Session("t1").isActive
  /\ pendingRequests # {}

\* C9: once a cancelTranslation has been answered the session is not loading,
\* and it does not become loading without a new translate message.  Stated
\* for the answer and the step after it, in which no translate message
\* received after the answer can have reached line 169.
C9_CancelStopsLoading ==
  [][\A t \in Tabs :
       /\ out'.action = "cancel" => NotLoadingNext(t)
       /\ out.action = "cancel" => NotLoadingNext(t)]_vars

\* C10: a health check that fails or reports the language model as not
\* connected ends the request: no translate call is issued, the answer is an
\* error that is not marked cancelled, the key is removed, and the session
\* of the request has isLoading = false and error set.
C10_UnhealthyFailsFast ==
  [][\A r \in Suspended, o \in {"notConnected", "unreachable"} :
       TranslateHealthReturn(r, o)
         => /\ Returns(r)
            /\ out'.action = "translate" /\ out'.vid = r.vid
            /\ ~out'.resp.success /\ ~out'.resp.cancelled
            /\ out'.resp.kind # Null
            /\ Key(r) \notin pendingRequests'
            /\ r.live
                 => /\ ~NextSession(r.tab).isLoading
                    /\ NextSession(r.tab).error # Null
                    /\ NextSession(r.tab).error = out'.resp.kind]_vars

C10_Witness ==
  /\ out.action = "translate" /\ out.resp.kind = "ollama"
  /\ HasState("t1") /\ Session("t1").error = "ollama"
  /\ ~Session("t1").isLoading
  /\ requestKey("t1", out.vid) \notin pendingRequests
  /\ flows = EmptyBag

\* C11: the outcome of the translate call determines what the handler writes
\* to its session object and what it answers.  A success body: subtitles,
\* taskId, sourceType of the body, isActive, not isLoading, and a success
\* payload.  A body with success = false: not isLoading, no video, error left
\* as it was, and an answer marked cancelled.  A transport or HTTP failure:
\* not isLoading, no video, error set, and an error answer not marked
\* cancelled.
C11_OutcomeDecides ==
  [][\A r \in Suspended, o \in TranslateOutcomes :
       (r.pc = "translate" /\ TranslateReturn(r, o))
         => /\ Returns(r)
            /\ out'.action = "translate" /\ out'.vid = r.vid
            /\ o.kind = "success"
                 => /\ out'.resp.success /\ ~out'.resp.cancelled
                    /\ out'.resp.data # None
                    /\ out'.resp.data[1].segments = BackendSegments(r.vid, o.shape)
                    /\ out'.resp.data[1].taskId = r.vid
                    /\ r.live
                         => /\ NextSession(r.tab).subtitles
                                 = Some(BackendSegments(r.vid, o.shape))
                            /\ NextSession(r.tab).currentTaskId = r.vid
                            /\ NextSession(r.tab).sourceType = "manual"
                            /\ NextSession(r.tab).isActive
                            /\ ~NextSession(r.tab).isLoading
            /\ o.kind = "notSuccess"
                 => /\ ~out'.resp.success /\ out'.resp.cancelled
                    /\ r.live
                         => /\ ~NextSession(r.tab).isLoading
                            /\ NextSession(r.tab).currentVideoId = Null
                            /\ NextSession(r.tab).error = FlowState(r).error
            /\ o.kind = "failure"
                 => /\ ~out'.resp.success /\ ~out'.resp.cancelled
                    /\ out'.resp.kind = "failure"
                    /\ r.live
                         => /\ ~NextSession(r.tab).isLoading
                            /\ NextSession(r.tab).currentVideoId = Null
                            /\ NextSession(r.tab).error = "failure"]_vars

C11_Witness ==
  /\ out.action = "translate" /\ out.resp.cancelled
  /\ HasState("t1") /\ ~Session("t1").isLoading
  /\ Session("t1").currentVideoId = Null
  /\ Session("t1").error = Null

\* C13: in the background session of a tab, isLoading and isActive are never
\* both true.
C13_NotLoadingAndActive ==
  \A t \in Tabs : HasState(t) => ~(Session(t).isLoading /\ Session(t).isActive)

\* sorted ascending by start
SortedByStart(segs) ==
  \A i, j \in 1..Len(segs) : i < j => segs[i].start <= segs[j].start
\* no two segments overlap
NonOverlapping(segs) ==
  \A i, j \in 1..Len(segs) :
    i # j => (segs[i].end <= segs[j].start \/ segs[j].end <= segs[i].start)

\* C20: the subtitles a session holds after a success response was applied
\* are sorted ascending by start and pairwise non-overlapping.
C20_SubtitlesSorted ==
  \A t \in Tabs :
    (HasState(t) /\ Session(t).subtitles # None)
      => /\ SortedByStart(Session(t).subtitles[1])
         /\ NonOverlapping(Session(t).subtitles[1])

\* C14: in the session of the tab in the background and in the state of the
\* page alike, a segment list that is not empty comes with isActive = true.
HasSegments(subtitles) == subtitles # None /\ Len(subtitles[1]) > 0
C14_SubtitlesImplyActive ==
  /\ \A t \in Tabs :
       HasState(t) /\ HasSegments(Session(t).subtitles) => Session(t).isActive
  /\ Len(page.subtitles) > 0 => page.isActive
\* both copies hold segments of the second video, no ad playing
C14_Witness ==
  /\ HasState(Tab) /\ HasSegments(Session(Tab).subtitles)
  /\ Len(page.subtitles) > 0 /\ page.isActive
  /\ ~page.isAdPlaying /\ page.cachedSubtitles = None
  /\ page.lastVideoId = "B"

\* C15: when a poll finds that the ad has ended, the snapshot is restored
\* only if its videoId is the video id of the page location; otherwise
\* nothing is restored and no snapshot is left.
AdEnds == page.isAdPlaying /\ ~page'.isAdPlaying /\ page'.elements
SnapshotMatches == page.cachedSubtitles # None /\ page.cachedSubtitles[1].videoId = location
C15_MismatchDropsSnapshot ==
  [][AdEnds /\ ~SnapshotMatches =>
       /\ page'.subtitles = page.subtitles
       /\ page'.isActive = page.isActive
       /\ page'.cachedSubtitles = None]_vars

\* C16: an ad that starts on an active session with segments takes a
\* snapshot of the list and the task id, the snapshot stays as it is while
\* the ad plays, and when the ad ends on the same video the session is
\* active with that list and task id and the snapshot is consumed.
AdStarts == ~page.isAdPlaying /\ page'.isAdPlaying
Snapshot(p) ==
  Some([subtitles |-> p.subtitles, taskId |-> p.currentTaskId, videoId |-> p.currentVideoId])
Restores == AdEnds /\ SnapshotMatches /\ Len(page.cachedSubtitles[1].subtitles) > 0
AdRoundTrip ==
  /\ AdStarts /\ page.isActive /\ Len(page.subtitles) > 0
       => page'.cachedSubtitles = Snapshot(page)
  /\ page.isAdPlaying /\ page'.isAdPlaying
       => page'.cachedSubtitles = page.cachedSubtitles
  /\ Restores
       => /\ page'.isActive
          /\ page'.subtitles = page.cachedSubtitles[1].subtitles
          /\ page'.currentTaskId = page.cachedSubtitles[1].taskId
          /\ page'.cachedSubtitles = None
\* as claimed: the overlay is visible after every such ad end
C16_AdRestoreVisible ==
  [][AdRoundTrip /\ (Restores => ~page'.hidden)]_vars
\* as found: the overlay is visible if the synchronizer run of the ad end
\* selected a segment, and then shows the text of that segment; it is hidden
\* if a segment was shown before the ad and the run selected none
C16_AdRestore ==
  [][/\ AdRoundTrip
     /\ Restores /\ page'.currentIndex >= 0
          => /\ ~page'.hidden
             /\ page'.text = Content(page'.subtitles[page'.currentIndex + 1],
                                     page'.showOriginal)
     /\ Restores /\ page.currentIndex >= 0 /\ page'.currentIndex = -1
          => page'.hidden]_vars
\* an ad plays on the video of the snapshot, a segment was shown before it
C16_Witness ==
  /\ page.isAdPlaying /\ page.elements
  /\ SnapshotMatches /\ Len(page.cachedSubtitles[1].subtitles) > 0
  /\ page.currentIndex >= 0 /\ page.hidden

\* C17: an ad starts on an active session and the page moves to another
\* video while it plays.  Whichever of the ad poll and the navigation event
\* runs first: the poll that finds the ad ended restores nothing, the
\* navigation event leaves the session inactive with no segments, no
\* snapshot and the overlay hidden, and from then on only the answer to the
\* translate request of a later toggle changes that.
Quiet ==
  /\ ~page.isActive /\ Len(page.subtitles) = 0
  /\ page.cachedSubtitles = None /\ page.hidden
\* handleVideoChange runs to its end for a move to another video
NavProcessed ==
  \E c \in Waiting :
    /\ calls' = Run(c) (+) SetToBag({Call("initialize", Null)})
    /\ \/ c.kind = "changeCancel"
       \/ /\ c.kind = "navigate"
          /\ location \notin {Null, page.lastVideoId}
          /\ VideoChangeMessage(page, location) = NoMessage
TranslateCount(b) ==
  LET waiting == {c \in BagToSet(b) : c.kind = "translate"}
  IN BagCardinality([c \in waiting |-> CopiesIn(c, b)])
Within(seg, t) == seg.start <= t /\ t < seg.end
Outside(segs, t) ==
  \/ t < segs[1].start
  \/ t >= segs[Len(segs)].end
  \/ \E i \in 1..(Len(segs) - 1) : segs[i].end <= t /\ t < segs[i + 1].start
C18_SelectsContaining ==
  [][\A t \in Times :
       (/\ PageTimeUpdate(t)
        /\ page.isActive /\ ~page.isAdPlaying /\ page.elements
        /\ Len(page.subtitles) > 0
        /\ SortedByStart(page.subtitles) /\ NonOverlapping(page.subtitles))
         => /\ \A i \in 1..Len(page.subtitles) :
                 Within(page.subtitles[i], t) => page'.currentIndex = i - 1
            /\ Outside(page.subtitles, t) => page'.currentIndex = -1]_vars
\* the second of two segments with a gap between them is selected
C18_Witness ==
  /\ page.isActive /\ Len(page.subtitles) >= 2
  /\ page.subtitles[1].end < page.subtitles[2].start
  /\ page.currentIndex = 1

\* C19: after a synchronizer run on an active session with segments, at a
\* playback time that no segment contains, the overlay is hidden, its text
\* is empty and the index is -1; so for the run of a time update, the first
\* run after activation and the run of an ad restore.
SynchronizerRun(t) ==
  \/ PageTimeUpdate(t) /\ page.isActive /\ ~page.isAdPlaying
  \/ \E c \in Waiting : \E resp \in Answers(c) :
       /\ c.kind = "translate" /\ resp.success /\ ~IsStale(page, c.vid)
       /\ PageResume(c, resp, t)
  \/ PagePoll(FALSE, t) /\ Restores
C19_NoMatchHides ==
  [][\A t \in Times :
       (/\ SynchronizerRun(t)
        /\ page'.elements /\ Len(page'.subtitles) > 0
        /\ \A i \in 1..Len(page'.subtitles) : ~Within(page'.subtitles[i], t))
         => /\ page'.hidden
            /\ page'.text = NoText
            /\ page'.currentIndex = -1]_vars

\* C12: every message the background router receives and every message the
\* page listener receives is answered exactly once.  A message is answered
\* in the step that receives it, or its handler is suspended and answers in
\* the step in which it ends; no other step answers; an unknown action is
\* answered with an error; and, every backend call returning, every
\* suspended handler answers.
MessageKeys ==
  ({"translate"} \X Videos) \cup ({"cancel"} \X (Videos \cup {Null}))
    \cup ({"checkHealth"} \X {Null})
Handlers(b, k, v) == CountIn(b, {q \in RouterFlowRecs : q.kind = k /\ q.vid = v})
AnswersTo(k, v) == out'.action = k /\ out'.vid = v
\* answered in the receiving step, or one more handler suspended
ReceivedOnce(k, v) ==
  \/ AnswersTo(k, v) /\ flows' = flows
  \/ /\ out' = NoOut
     /\ Handlers(flows', k, v) = Handlers(flows, k, v) + 1
     /\ BagCardinality(flows') = BagCardinality(flows) + 1
ImmediateKinds == {"duplicate", "nothingToCancel", "noTask"}
C12_AnsweredOnce ==
  /\ [][/\ \A t \in Tabs, v \in Videos :
             TranslateReceive(t, v) => ReceivedOnce("translate", v)
        /\ \A t \in Tabs, mv \in Videos \cup {Null} :
             CancelReceive(t, mv) => ReceivedOnce("cancel", mv)
        /\ \A t \in Tabs : HealthReceive(t) => ReceivedOnce("checkHealth", Null)
        /\ \A t \in Tabs : GetState(t) => AnswersTo("getState", Null) /\ flows' = flows
        /\ \A t \in Tabs, patch \in StatePatches :
             SetState(t, patch) => AnswersTo("setState", Null) /\ flows' = flows
        /\ \A t \in Tabs :
             UnknownAction(t) => /\ AnswersTo("unknown", Null) /\ flows' = flows
                                 /\ ~out'.resp.success
                                 /\ out'.resp.kind = "unknownAction"]_vars
  /\ [][\A key \in MessageKeys :
          LET before == Handlers(flows, key[1], key[2])
              after == Handlers(flows', key[1], key[2])
          IN /\ after >= before - 1
             /\ after < before
                  => /\ AnswersTo(key[1], key[2])
                     /\ out'.resp.kind \notin ImmediateKinds
                     /\ BagCardinality(flows') = BagCardinality(flows) - 1
             /\ (AnswersTo(key[1], key[2]) /\ out'.resp.kind \notin ImmediateKinds)
                  => after = before - 1]_vars
  /\ [][/\ \A message \in PageMessages :
             PageListener(message)
               => /\ ack'.action = message.action
                  /\ ack'.resp = IF message.action = "other" THEN "unknownAction"
                                 ELSE "success"
        /\ ack' # NoAck => \E message \in PageMessages : PageListener(message)]_vars
  /\ \A key \in MessageKeys :
       (Handlers(flows, key[1], key[2]) > 0)
         ~> (/\ out.action = key[1] /\ out.vid = key[2]
             /\ out.resp.kind \notin ImmediateKinds)
\* a cancel without a video id on a session that is loading is answered
C12_Witness == out.action = "cancel" /\ out.vid = Null /\ out.resp.kind = "noTask"

\* C21: once a tab is removed the session store has no entry of it and the
\* pending set has no key of it, also while handlers that were suspended at
\* the removal run to their end.
C21_RemovedTabLeavesNothing ==
  \A t \in Tabs :
    ~tabOpen[t] => /\ ~HasState(t)
                   /\ \A k \in pendingRequests : k[1] # t

\* C22: the session of the tab is created by the first message of the tab,
\* is reset to its initial values whenever the tab moves from one video to
\* another, loading or active, is not deleted while the tab is open, and is
\* not changed by an ad start or an ad end.
MessageReceived ==
  \/ \E v \in Videos : TranslateReceive(Tab, v)
  \/ \E mv \in Videos \cup {Null} : CancelReceive(Tab, mv)
MovesToOtherVideo == location \in Videos /\ location' \in Videos /\ location' # location
C22_SessionLifecycle ==
  [][/\ MessageReceived => HasState(Tab)'
     /\ ~HasState(Tab) /\ HasState(Tab)' => MessageReceived /\ ~MovesToOtherVideo
     /\ (/\ HasState(Tab) /\ MovesToOtherVideo
         /\ Session(Tab).isLoading \/ Session(Tab).isActive)
          => tabStates'[Tab] = Some(NewState)
     /\ HasState(Tab) => HasState(Tab)'
     /\ AdStarts \/ AdEnds => tabStates' = tabStates]_vars

\* C23: when a translate request of the tab returns a failure (health failure,
\* backend not ready, transport failure, cancellation reported by the backend)
\* and nothing else is in progress on the tab, the background session is not
\* loading, the page is not loading and has no pendingRequest marker, and the
\* key of the request is free, so a new translate for it is not a duplicate.
FailureKinds == {"unreachable", "ollama", "failure", "cancelled"}
TranslateFails(v) ==
  /\ out'.action = "translate" /\ out'.vid = v
  /\ out'.resp.kind \in FailureKinds
NothingInProgress(b, cs) ==
  b = EmptyBag /\ \A c \in BagToSet(cs) : c.kind \notin AwaitKinds
C23_FailureLeavesRetryable ==
  [][\A v \in Videos :
       TranslateFails(v) /\ NothingInProgress(flows', calls')
         => /\ HasState(Tab)' => ~NextSession(Tab).isLoading
            /\ ~page'.isLoading /\ page'.pendingRequest = Null
            /\ requestKey(Tab, v) \notin pendingRequests']_vars
C23_Witness ==
  /\ out.action = "translate" /\ out.resp.kind \in FailureKinds
  /\ NothingInProgress(flows, calls)
  /\ HasState(Tab) /\ Session(Tab).error # Null
  /\ page.elements /\ ~page.isLoading

\* C24: when handleVideoChange finds the tab on another video than the one it
\* recorded, it sends cancelTranslation for the recorded video exactly when
\* the page is loading, and resets nothing before that message is answered;
\* when it has no message to send, or when the message is answered, whatever
\* the answer, the page is inactive, not loading, without segments, with
\* currentIndex -1, without snapshot, without pendingRequest marker, not in an
\* ad, with the ad poll stopped, and one more initialize is scheduled.
DetectsChange ==
  /\ page.lastVideoId \in Videos /\ page'.lastVideoId \in Videos
  /\ page'.lastVideoId # page.lastVideoId
IsReset(p) ==
  /\ ~p.isActive /\ ~p.isLoading /\ p.subtitles = << >> /\ p.currentIndex = -1
  /\ p.cachedSubtitles = None /\ p.pendingRequest = Null
  /\ ~p.isAdPlaying /\ ~p.adCheckInterval
Scheduled(kind, vid, b) == CopiesIn(Call(kind, vid), b)
Outstanding(kind, b) ==
  CountIn(b, {c \in BagToSet(b) : c.kind = kind})
OneMoreInitialize ==
  Scheduled("initialize", Null, calls') = Scheduled("initialize", Null, calls) + 1
ChangeCancelAnswered == Outstanding("changeCancel", calls') < Outstanding("changeCancel", calls)
C24_VideoChangeResets ==
  [][/\ DetectsChange /\ page.isLoading
          => /\ Scheduled("changeCancel", page.lastVideoId, calls')
                  = Scheduled("changeCancel", page.lastVideoId, calls) + 1
             /\ page' = [page EXCEPT !.lastVideoId = location]
             /\ Scheduled("initialize", Null, calls') = Scheduled("initialize", Null, calls)
     /\ DetectsChange /\ ~page.isLoading
          => /\ Outstanding("changeCancel", calls') = Outstanding("changeCancel", calls)
             /\ IsReset(page') /\ OneMoreInitialize
     /\ ChangeCancelAnswered => IsReset(page') /\ OneMoreInitialize]_vars
C24_Witness ==
  /\ page.lastVideoId = "B" /\ location = "B"
  /\ IsReset(page) /\ ~page.elements
  /\ Scheduled("initialize", Null, calls) = 1
  /\ Outstanding("changeCancel", calls) = 0
  /\ Outstanding("translate", calls) = 1

\* C25: when handleVideoChange finds that the tab has left the watch page, it
\* sends cancelTranslation exactly when the page is loading and resets nothing
\* before the answer; when it sends nothing, or when the message is answered,
\* the working state and the ad poll are reset; no initialize is scheduled;
\* and the page stays uninitialized for as long as the tab is not on a watch
\* page.
DetectsLeave == page.lastVideoId \in Videos /\ page'.lastVideoId = Null
LeaveCancelAnswered == Outstanding("leaveCancel", calls') < Outstanding("leaveCancel", calls)
C25_LeaveResets ==
  [][/\ DetectsLeave /\ page.isLoading
          => /\ Outstanding("leaveCancel", calls') = Outstanding("leaveCancel", calls) + 1
             /\ page' = [page EXCEPT !.lastVideoId = Null]
     /\ DetectsLeave /\ ~page.isLoading
          => /\ Outstanding("leaveCancel", calls') = Outstanding("leaveCancel", calls)
             /\ IsReset(page')
     /\ LeaveCancelAnswered => IsReset(page')
     /\ DetectsLeave \/ LeaveCancelAnswered
          => Scheduled("initialize", Null, calls') = Scheduled("initialize", Null, calls)
     /\ (/\ page.lastVideoId = Null /\ location = Null /\ location' = Null
         /\ ~page.isInitialized) => ~page'.isInitialized]_vars

\* C26: isAdPlaying turns true only in a poll that finds an ad, and the ad-end
\* handler runs only in a poll that finds none; a poll that finds what
\* isAdPlaying already says, or that runs without player container, changes
\* nothing; the ad start takes the snapshot {subtitles, taskId, videoId} when
\* the session is active with segments, and otherwise changes nothing but
\* isAdPlaying and the visibility of the overlay.
Capturing(p) == p.isActive /\ Len(p.subtitles) > 0
C26_AdMonitorEdgeTriggered ==
  [][/\ AdStarts => \E t \in Times : PagePoll(TRUE, t)
     /\ AdEnds => \E t \in Times : PagePoll(FALSE, t)
     /\ \A isAdNow \in BOOLEAN, t \in Times :
          PagePoll(isAdNow, t) /\ (isAdNow = page.isAdPlaying \/ ~page.elements)
            => page' = page
     /\ AdStarts /\ Capturing(page)
          => page' = [page EXCEPT !.isAdPlaying = TRUE, !.hidden = TRUE,
                                  !.cachedSubtitles = Snapshot(page)]
     /\ AdStarts /\ ~Capturing(page)
          => page' = [page EXCEPT !.isAdPlaying = TRUE, !.hidden = TRUE]]_vars
\* an ad plays over an active session whose segments are in the snapshot
C26_Witness ==
  /\ page.isAdPlaying /\ page.isActive /\ page.hidden
  /\ page.cachedSubtitles = Snapshot(page) /\ Len(page.subtitles) > 0

\* C27: whenever the overlay shows a segment, its text is the translated text
\* of that segment, followed by the original text exactly when showOriginal
\* is true at that time, after any sequence of time updates, seeks and
\* setOption messages.
ShowsSegment(p) == ~p.hidden /\ p.currentIndex >= 0 /\ p.currentIndex < Len(p.subtitles)
C27_TextFollowsOption ==
  ShowsSegment(page)
    => page.text = Content(page.subtitles[page.currentIndex + 1], page.showOriginal)

\* C28: when the answer to a translate request arrives while the page waits
\* for the answer to a newer translate request for another video, handling
\* the earlier answer changes neither the pendingRequest marker nor the
\* loading flag of the page.
EarlierAnswered ==
  \E c \in Waiting :
    /\ c.kind = "translate" /\ calls' = Run(c)
    /\ page.pendingRequest \in Videos \ {c.vid}
    /\ Outstanding("translate", calls') > 0
C28_EarlierAnswerKeepsNewer ==
  [][EarlierAnswered => /\ page'.pendingRequest = page.pendingRequest
                        /\ page'.isLoading = page.isLoading]_vars

\* C29: a cancelTranslation message that names a video other than the one the
\* session of the tab is loading changes neither isLoading nor currentVideoId
\* of that session and does not remove the pending key of the video being
\* loaded, neither when it is received nor when its cancel call returns.
LoadingOther(t, mv) ==
  /\ HasState(t) /\ Session(t).isLoading
  /\ mv # Null /\ Session(t).currentVideoId \notin {Null, mv}
KeepsLoading(t) ==
  /\ HasState(t)'
  /\ NextSession(t).isLoading
  /\ NextSession(t).currentVideoId = Session(t).currentVideoId
  /\ requestKey(t, Session(t).currentVideoId) \in pendingRequests
       => requestKey(t, Session(t).currentVideoId) \in pendingRequests'
C29_CancelOfOtherVideo ==
  [][\A r \in FlowRecs :
       /\ IsCancel(r) /\ r.live /\ LoadingOther(r.tab, r.vid)
       /\ flows' = Suspend(r) \/ Returns(r)
       => KeepsLoading(r.tab)]_vars

\* C30: while an ad plays (isAdPlaying) the subtitle overlay is hidden,
\* whatever time update, seek, toggle click or translate answer arrives
\* before the ad ends.
C30_HiddenDuringAd == page.isAdPlaying => page.hidden
====
